---- MODULE Spec2Model ----
(***************************************************************************)
(* ExcelPro job queue (src/src/excelops/jobs.py): the durable JobStore,   *)
(* the JobRunner (dispatch queue, in-flight set, worker pool) and the      *)
(* callers of src/src/excelops/ui.py, as one state machine.               *)
(*                                                                         *)
(* Every store operation is one step (it runs under JobStore._lock), and  *)
(* so is every critical section of the runner's locks and every queue     *)
(* operation. A thread's computation between two such steps is local and  *)
(* is folded into the step before it. update_job reads the clock before   *)
(* it takes the store lock: the time it read is any time between the      *)
(* thread's previous step and the write.                                  *)
(***************************************************************************)
EXTENDS Integers, Sequences, FiniteSets, TLC

\* ------------------------------------------------------------------ bounds

\* The dispatch queue is unbounded in the code; the model stops accepting
\* Submit calls when it holds MaxQueue identifiers.
MaxQueue == 2
\* The clock stops after MaxTime ticks.
MaxTime == 3

\* Clock ticks per second: now_iso() keeps whole seconds, datetime.utcnow()
\* .isoformat() keeps the fraction.
TicksPerSec == 2
MaxLimit == 3

JobIds == {1, 2}
Workers == {1, 2}
Callers == {"c1", "c2"}

\* ------------------------------------------------------------- program data

None == "None"
NoError == << >>
\* update_job's progress left at Python's None
NoProgress == -1

\* ops.py lines 30-48: two of the registered operations
OP_CONCAT == "concat_tables"
OP_JOIN == "join_tables"
OP_REGISTRY == {OP_CONCAT, OP_JOIN}

\* (operation, params) pairs callers create jobs with: params is the set of
\* keys present in the params dict.
JobKinds == { [operation |-> OP_CONCAT, params |-> {}],
              [operation |-> OP_JOIN, params |-> {}],
              [operation |-> "no_such_op", params |-> {}] }

NoJob == [job_id |-> 0]

JobRecord(job_id, ts, operation, params, inputs) ==
    [ job_id |-> job_id,
      created_at |-> ts,
      updated_at |-> ts,
      operation |-> operation,
      status |-> "queued",
      progress |-> 0,
      message |-> "Queued",
      params |-> params,
      inputs |-> inputs,
      output_path |-> None,
      error |-> NoError ]

VARIABLES
    cfg_workers,  \* AppConfig.workers
    now,          \* the wall clock, in ticks
    store,        \* the jobs table: job_id -> row, or NoJob
    queue,        \* JobRunner.queue
    inflight,     \* JobRunner._inflight
    started,      \* JobRunner._started
    workers,      \* JobRunner._workers: the list of worker threads launched
    wk,           \* each worker loop: its position and locals
    cl,           \* each caller thread: its position and locals
    nfacc,        \* history: accepted non-forced Submit calls per job since it last completed
    unfinished_tasks,  \* Queue.unfinished_tasks: items put and not yet task_done
    hist,         \* history of the dispatch_pending calls, kept when hist.on
    lk            \* the locks: who owns each, and what each thread has yet to do

vars == << cfg_workers, now, store, queue, inflight, started, workers, wk, cl, nfacc,
           unfinished_tasks, hist, lk >>

\* ------------------------------------------------------------------- clock

\* utils.now_iso: UTC, cut to whole seconds.
now_iso == now \div TicksPerSec

\* requeue_stale_running's cutoff: datetime.utcnow() - stale_seconds, with its
\* fraction of a second.
CutoffOf(stale_seconds) == now - stale_seconds * TicksPerSec

\* mutant of IsoLess: a record updated exactly at the cutoff counts as stale
IsoLessOrEqual(updated_at, cutoff) == updated_at <= cutoff \div TicksPerSec

\* SQLite's text comparison updated_at < cutoff, of "....SS+00:00" with
\* "....SS.ffffff" (or "....SS" when the fraction is zero): the seconds decide;
\* on equal seconds '+' sorts before '.', and a longer string after its prefix.
IsoLess(updated_at, cutoff) ==
    LET csec == cutoff \div TicksPerSec
        cfrac == cutoff % TicksPerSec
    IN  \/ updated_at < csec
        \/ updated_at = csec /\ cfrac > 0

\* what now_iso() may have returned to a thread that called it after its
\* previous step (made at time since) and has not yet passed the store lock
ClockReads(since) == { t \div TicksPerSec : t \in since..now }

Tick ==
    /\ now < MaxTime
    /\ now' = now + 1
    /\ UNCHANGED << cfg_workers, store, queue, inflight, started, workers, wk, cl, nfacc,
                 unfinished_tasks, hist, lk >>

\* ------------------------------------------------------------------- store

\* update_job, lines 117-135: the values dict. A parameter left at (or passed
\* as) Python's None is not put into the UPDATE. updated_at is read here,
\* before the lock is taken: see ClockReads.
UpdateValues(status, progress, message, output_path, error) ==
    [ status |-> status,
      progress |-> progress,
      message |-> message,
      output_path |-> output_path,
      error |-> error ]

NoValues == UpdateValues(None, NoProgress, None, None, NoError)

\* mutant of ApplyUpdate: the parameters are tested for truth, not for None,
\* so that a progress of 0 and an empty message are left out
ApplyUpdateIfTruthy(st, job_id, values, updated_at) ==
    IF st[job_id] = NoJob THEN st
    ELSE [st EXCEPT ![job_id] =
            [@ EXCEPT
                !.status = IF values.status # None THEN values.status ELSE @,
                !.progress = IF values.progress \notin {NoProgress, 0}
                             THEN values.progress ELSE @,
                !.message = IF values.message \notin {None, ""}
                            THEN values.message ELSE @,
                !.output_path = IF values.output_path # None THEN values.output_path ELSE @,
                !.error = IF values.error # NoError THEN values.error ELSE @,
                !.updated_at = updated_at ]]

\* update_job, lines 137-142: UPDATE jobs SET <the values supplied>, updated_at
\* WHERE job_id = :job_id, under the store lock. No such row: nothing changes.
ApplyUpdate(st, job_id, values, updated_at) ==
    IF st[job_id] = NoJob THEN st
    ELSE [st EXCEPT ![job_id] =
            [@ EXCEPT
                !.status = IF values.status # None THEN values.status ELSE @,
                !.progress = IF values.progress # NoProgress THEN values.progress ELSE @,
                !.message = IF values.message # None THEN values.message ELSE @,
                !.output_path = IF values.output_path # None THEN values.output_path ELSE @,
                !.error = IF values.error # NoError THEN values.error ELSE @,
                !.updated_at = updated_at ]]

\* mutant of ApplyInputs: the UPDATE also puts the record back to queued
ApplyInputsAndRequeue(st, job_id, inputs) ==
    IF st[job_id] = NoJob THEN st
    ELSE [st EXCEPT ![job_id] = [@ EXCEPT !.inputs = inputs, !.updated_at = now_iso,
                                          !.status = "queued", !.progress = 0]]

\* update_inputs: one UPDATE of inputs_json and updated_at; now_iso() is read
\* inside the lock.
ApplyInputs(st, job_id, inputs) ==
    IF st[job_id] = NoJob THEN st
    ELSE [st EXCEPT ![job_id] = [@ EXCEPT !.inputs = inputs, !.updated_at = now_iso]]

\* mutant of StaleIds: the SELECT filters on the wrong status
StaleIdsOfQueued(st, cutoff) ==
    { j \in JobIds : /\ st[j] # NoJob
                     /\ st[j].status = "queued"
                     /\ IsoLess(st[j].updated_at, cutoff) }

\* requeue_stale_running, lines 160-164: the SELECT.
StaleIds(st, cutoff) ==
    { j \in JobIds : /\ st[j] # NoJob
                     /\ st[j].status = "running"
                     /\ IsoLess(st[j].updated_at, cutoff) }

\* mutant of RequeueStale: the UPDATE goes by the age of the rows alone, as
\* if they had been selected while running and had changed status since
RequeueStaleByAge(st, cutoff) ==
    [ j \in JobIds |->
        IF st[j] # NoJob /\ IsoLess(st[j].updated_at, cutoff)
        THEN [st[j] EXCEPT !.status = "queued", !.progress = 0,
                           !.message = "Re-queued (stale running)",
                           !.updated_at = now_iso]
        ELSE st[j] ]

\* mutant of RequeueStale: the reset also records why, in the error column
RequeueStaleWithError(st, cutoff) ==
    [ j \in JobIds |->
        IF j \in StaleIds(st, cutoff)
        THEN [st[j] EXCEPT !.status = "queued", !.progress = 0,
                           !.message = "Re-queued (stale running)",
                           !.updated_at = now_iso,
                           !.error = << "Re-queued (stale running)" >>]
        ELSE st[j] ]

\* requeue_stale_running, lines 165-173: the UPDATE of the selected rows, in
\* the same critical section as the SELECT; now_iso() is read inside it.
RequeueStale(st, cutoff) ==
    [ j \in JobIds |->
        IF j \in StaleIds(st, cutoff)
        THEN [st[j] EXCEPT !.status = "queued", !.progress = 0,
                           !.message = "Re-queued (stale running)",
                           !.updated_at = now_iso]
        ELSE st[j] ]

\* mutant of Matches: the status filter is not applied
MatchesOperationOnly(rec, status, operation) ==
    /\ rec # NoJob
    /\ operation # None => rec.operation = operation

\* list_jobs: the rows matching the filters (None: no filter), in an order with
\* created_at non-increasing (rows with equal created_at in either order),
\* then OFFSET and LIMIT. The set of results the query may return.
Matches(rec, status, operation) ==
    /\ rec # NoJob
    /\ status # None => rec.status = status
    /\ operation # None => rec.operation = operation

ListJobs(st, limit, offset, status, operation) ==
    LET M == { j \in JobIds : Matches(st[j], status, operation) }
        n == Cardinality(M)
        Orders == { s \in [1..n -> M] :
                      /\ \A a, b \in 1..n : a # b => s[a] # s[b]
                      /\ \A a, b \in 1..n :
                           a < b => st[s[a]].created_at >= st[s[b]].created_at }
        Cut(s) == [ i \in 1..(IF n - offset < limit
                              THEN (IF n - offset < 0 THEN 0 ELSE n - offset)
                              ELSE limit) |-> st[s[i + offset]] ]
    IN  { Cut(s) : s \in Orders }

\* the status get_job would read for job_id j
StoredStatus(j) == IF store[j] = NoJob THEN "absent" ELSE store[j].status

FreeIds == { j \in JobIds : store[j] = NoJob }

\* mutant of new_job_id: an identifier that may be taken (and an INSERT that
\* replaces the row)
new_job_id_taken == CHOOSE j \in JobIds : \A k \in JobIds : j <= k

\* utils.new_job_id: uuid4, an identifier no row has.
new_job_id == CHOOSE j \in FreeIds : \A k \in FreeIds : j <= k

\* ----------------------------------------------------------------- threads

\* what the loop body reads of the row get_job returned (lines 311-319)
NoRec == [ operation |-> None, params |-> {}, inputs |-> None ]

RecOf(row) == [ operation |-> row.operation, params |-> row.params,
                inputs |-> row.inputs ]

\* pc: the loop's position; job_id, rec, values: its locals; last: the last
\* progress the executor reported; since: the time of the thread's previous
\* step. History of the current turn: nq (the stored status was not queued
\* when the item was dequeued), exc (the message of the exception raised),
\* nterm (updates of output_path or error made).
IdleWorker == [ pc |-> "off", job_id |-> 0, rec |-> NoRec, values |-> NoValues,
                last |-> 0, since |-> 0, nq |-> FALSE, exc |-> None, nterm |-> 0 ]

\* pc: the caller's position in flow (a sequence of calls of ui.py); the
\* other fields are the locals of the call in progress; ok: what the last
\* submit of the flow returned; values, exc: the arguments of a direct
\* update_job call and the exception it raised (None: it returned); args,
\* rows: the arguments of a direct list_jobs call and the list it returned.
IdleCaller == [ pc |-> "idle", flow |-> None, job_id |-> 0, force |-> FALSE,
                run |-> FALSE, limit |-> 0, cutoff |-> 0, requeued |-> 0,
                dispatched |-> 0, pending |-> << >>, since |-> 0, ok |-> FALSE,
                values |-> NoValues, exc |-> None, args |-> << >>, rows |-> << >> ]

\* history: row: a dispatch_pending call has returned and no job was created
\* or reset to queued since
NoHistory == [ on |-> FALSE, row |-> FALSE ]

Record(field, value) == IF hist.on THEN [hist EXCEPT ![field] = value] ELSE hist

\* ------------------------------------------------------------------- locks

\* JobStore._lock, JobRunner._start_lock, JobRunner._inflight_lock
\* (threading.Lock, not reentrant) and the mutex inside queue.Queue
Locks == {"_lock", "_start_lock", "_inflight_lock", "mutex"}

\* the threads that share the runner: two UI threads and two worker loops
LockThreads == {"c1", "c2", "w1", "w2"}

\* a "with lock:" block whose body takes no other lock
Held(l) == << << "acquire", l >>, << "release", l >> >>

\* any JobStore method (create_job, update_job, update_inputs,
\* requeue_stale_running, get_job, list_jobs): one "with self._lock" block
StoreCall == Held("_lock")

\* JobRunner.start, lines 225-232: the whole body under _start_lock
StartCall == Held("_start_lock")

\* mutant of DoneCall: _done reads the record while it holds _inflight_lock
DoneCallReadingStore ==
    << << "acquire", "_inflight_lock" >> >> \o StoreCall
        \o << << "release", "_inflight_lock" >> >>

\* JobRunner._done, lines 287-289
DoneCall == Held("_inflight_lock")

\* JobRunner.submit, lines 239-245: start(), the gate under _inflight_lock,
\* and, if the call is accepted, queue.put after the lock is released
SubmitCall(accepted) ==
    StartCall \o Held("_inflight_lock") \o (IF accepted THEN Held("mutex") ELSE << >>)

\* JobRunner.dispatch_pending, lines 251-259: start(), requeue_stale_running,
\* list_jobs, and a submit for each record listed (none or one here)
DispatchPendingCalls ==
    LET Listed == {<< >>} \cup {SubmitCall(a) : a \in BOOLEAN}
    IN  { StartCall \o StoreCall \o StoreCall \o l : l \in Listed }

\* what a UI thread may call: a store method, submit, submit followed by
\* update_job (ui.py 363-364), or dispatch_pending
CallerCalls ==
    {StoreCall} \cup {SubmitCall(a) : a \in BOOLEAN}
        \cup {SubmitCall(a) \o StoreCall : a \in BOOLEAN}
        \cup DispatchPendingCalls

\* one turn of _worker_loop, lines 294-346: queue.get, get_job, then either
\* "continue" or update_job(running), the progress updates (none or one here)
\* and the terminal update; in every case _done and queue.task_done
WorkerTurns ==
    LET Bodies == { << >>, StoreCall \o StoreCall,
                    StoreCall \o StoreCall \o StoreCall }
    IN  { Held("mutex") \o StoreCall \o b \o DoneCall \o Held("mutex") :
            b \in Bodies }

CallsOf(t) == IF t \in {"c1", "c2"} THEN CallerCalls ELSE WorkerTurns

\* owner: the thread inside each lock; todo: the lock operations each thread
\* has yet to perform in the call it is making
NoLocks == [ owner |-> [ l \in Locks |-> None ],
             todo |-> [ t \in LockThreads |-> << >> ] ]

\* the locks thread t is inside
HeldBy(t) == { l \in Locks : lk.owner[l] = t }

\* thread t is at "with l:", about to acquire l or blocked on it
WaitsFor(t, l) == lk.todo[t] # << >> /\ Head(lk.todo[t]) = << "acquire", l >>

\* thread t enters a call
LockBegin(t) ==
    /\ lk.todo[t] = << >>
    /\ \E call \in CallsOf(t) :
          /\ call # << >>
          /\ lk' = [lk EXCEPT !.todo[t] = call]
    /\ UNCHANGED << cfg_workers, now, store, queue, inflight, started, workers, wk, cl,
                    nfacc, unfinished_tasks, hist >>

\* Lock.acquire: thread t enters l when no thread is inside
LockAcquire(t) ==
    /\ \E l \in Locks :
          /\ WaitsFor(t, l)
          /\ lk.owner[l] = None
          /\ lk' = [lk EXCEPT !.owner[l] = t, !.todo[t] = Tail(@)]
    /\ UNCHANGED << cfg_workers, now, store, queue, inflight, started, workers, wk, cl,
                    nfacc, unfinished_tasks, hist >>

\* Lock.release at the end of the with block
LockRelease(t) ==
    /\ \E l \in Locks :
          /\ lk.todo[t] # << >>
          /\ Head(lk.todo[t]) = << "release", l >>
          /\ lk' = [lk EXCEPT !.owner[l] = None, !.todo[t] = Tail(@)]
    /\ UNCHANGED << cfg_workers, now, store, queue, inflight, started, workers, wk, cl,
                    nfacc, unfinished_tasks, hist >>

\* JobRunner.__init__: an empty queue, not started, no worker thread, an
\* empty in-flight set
NewRunner ==
    /\ queue = << >>
    /\ inflight = {}
    /\ started = FALSE
    /\ workers = << >>
    /\ wk = [ w \in Workers |-> IdleWorker ]
    /\ cl = [ c \in Callers |-> IdleCaller ]
    /\ nfacc = [ j \in JobIds |-> 0 ]
    /\ unfinished_tasks = 0
    /\ lk = NoLocks

\* a new process
InitRunner ==
    /\ cfg_workers \in 1..Cardinality(Workers)
    /\ NewRunner

\* a new process on an empty database
Init ==
    /\ InitRunner
    /\ now = 0
    /\ store = [ j \in JobIds |-> NoJob ]
    /\ hist = NoHistory

\* ------------------------------------------------------------------ runner

\* mutant of StartWorkers: start() without the _started check
StartWorkersAgain == workers \o [ i \in 1..cfg_workers |-> i ]

\* JobRunner.start, under _start_lock: the first call launches cfg.workers
\* worker loops; later calls return at once.
StartWorkers ==
    IF started THEN workers ELSE workers \o [ i \in 1..cfg_workers |-> i ]

StartWk == [ w \in Workers |->
               IF ~started /\ w \in 1..cfg_workers
               THEN [wk[w] EXCEPT !.pc = "idle"] ELSE wk[w] ]

\* room for one more identifier on the (model-bounded) dispatch queue
Room == Len(queue) + Cardinality({ c \in Callers : cl[c].pc = "put" }) < MaxQueue

\* mutant of AfterSubmit: dispatch_pending counts every submit it makes,
\* accepted or not
AfterSubmitCountAll(s, ok) ==
    IF s.flow = "dispatch"
    THEN LET d == s.dispatched + 1
         IN  IF s.pending = << >>
             THEN [IdleCaller EXCEPT !.pc = "ret", !.flow = "dispatch",
                                     !.requeued = s.requeued, !.dispatched = d]
             ELSE [s EXCEPT !.pc = "gate", !.job_id = Head(s.pending),
                            !.pending = Tail(s.pending), !.dispatched = d]
    ELSE IF s.flow = "manual"
    THEN [s EXCEPT !.pc = "upd", !.ok = ok, !.since = now]
    ELSE [IdleCaller EXCEPT !.ok = ok]

\* where a caller goes when its submit has returned ok: on in its flow
\*   dispatch_pending, lines 255-259: count, and submit the next listed job, or
\*     return the counts;
\*   ui.py 363-364, 438-439: update_job(status="queued", ...) follows;
\*   ui.py 351: the flow ends.
AfterSubmit(s, ok) ==
    IF s.flow = "dispatch"
    THEN LET d == IF ok THEN s.dispatched + 1 ELSE s.dispatched
         IN  IF s.pending = << >>
             THEN [IdleCaller EXCEPT !.pc = "ret", !.flow = "dispatch",
                                     !.requeued = s.requeued, !.dispatched = d]
             ELSE [s EXCEPT !.pc = "gate", !.job_id = Head(s.pending),
                            !.pending = Tail(s.pending), !.dispatched = d]
    ELSE IF s.flow = "manual"
    THEN [s EXCEPT !.pc = "upd", !.ok = ok, !.since = now]
    ELSE [IdleCaller EXCEPT !.ok = ok]

\* ui.py line 343: store.create_job(operation, params, inputs=[]), the INSERT
\* of a queued row with a fresh job_id; run: the button pressed was "submit and
\* run", not "queue only".
NewJob(c, kind, run) ==
    /\ cl[c].pc = "idle"
    /\ FreeIds # {}
    /\ store' = [store EXCEPT ![new_job_id] =
                    JobRecord(new_job_id, now_iso, kind.operation, kind.params, "empty")]
    /\ cl' = [cl EXCEPT ![c] =
                [IdleCaller EXCEPT !.pc = "inputs", !.flow = "new",
                                   !.job_id = new_job_id, !.run = run]]
    /\ UNCHANGED << cfg_workers, now, queue, inflight, started, workers, wk, nfacc,
                 unfinished_tasks, lk >>
    /\ hist' = Record("row", FALSE)

\* ui.py lines 344-351: save_uploads, store.update_inputs(job_id, inputs_meta),
\* and then runner.submit(job_id, force=True) if the job is to run.
UpdateInputs(c) ==
    /\ cl[c].pc = "inputs"
    /\ store' = ApplyInputs(store, cl[c].job_id, "uploaded")
    /\ cl' = [cl EXCEPT ![c] =
                IF cl[c].run
                THEN [@ EXCEPT !.pc = "gate", !.force = TRUE]
                ELSE IdleCaller]
    /\ UNCHANGED << cfg_workers, now, queue, inflight, started, workers, wk, nfacc,
                 unfinished_tasks, hist, lk >>

\* ui.py lines 363 and 438: runner.submit(job_id, force=True) on a job of the
\* list, whatever its status; update_job follows (ManualReset).
ManualDispatch(c, j) ==
    /\ cl[c].pc = "idle"
    /\ store[j] # NoJob
    /\ cl' = [cl EXCEPT ![c] =
                [IdleCaller EXCEPT !.pc = "gate", !.flow = "manual", !.job_id = j,
                                   !.force = TRUE]]
    /\ UNCHANGED << cfg_workers, now, store, queue, inflight, started, workers, wk, nfacc,
                 unfinished_tasks, hist, lk >>

\* JobRunner.submit(job_id, force) called on the runner with any identifier,
\* lines 234-238; the record is not read.
DirectSubmit(c, j, force) ==
    /\ cl[c].pc = "idle"
    /\ cl' = [cl EXCEPT ![c] =
                [IdleCaller EXCEPT !.pc = "gate", !.flow = "submit", !.job_id = j,
                                   !.force = force]]
    /\ UNCHANGED << cfg_workers, now, store, queue, inflight, started, workers, wk, nfacc,
                    unfinished_tasks, hist, lk >>

\* mutant of Rejected: no de-duplication gate
RejectedNever(force, job_id) == FALSE

\* mutant of Rejected: the gate does not look at force
RejectedForcedToo(force, job_id) == job_id \in inflight

\* JobRunner.submit, line 241: the call returns False
Rejected(force, job_id) == (~force) /\ job_id \in inflight

\* JobRunner.submit, lines 239-243: start(), then the de-duplication gate under
\* _inflight_lock. nfacc counts the non-forced calls accepted for a job that
\* has not completed.
SubmitGate(c) ==
    /\ cl[c].pc = "gate"
    /\ workers' = StartWorkers
    /\ started' = TRUE
    /\ LET s == cl[c]
           j == s.job_id
       IN  IF Rejected(s.force, j)
           THEN /\ cl' = [cl EXCEPT ![c] = AfterSubmit(s, FALSE)]
                /\ wk' = StartWk
                /\ UNCHANGED << inflight, nfacc,
                 unfinished_tasks, hist >>
           ELSE /\ Room
                /\ inflight' = inflight \cup {j}
                /\ nfacc' = IF \/ s.force
                               \/ store[j] = NoJob
                               \/ store[j].status \notin {"queued", "running"}
                            THEN nfacc
                            ELSE [nfacc EXCEPT ![j] = IF @ < 2 THEN @ + 1 ELSE @]
                /\ cl' = [cl EXCEPT ![c].pc = "put"]
                /\ wk' = StartWk
    /\ UNCHANGED << cfg_workers, now, store, queue,
                 unfinished_tasks, hist, lk >>

\* JobRunner.submit, lines 244-245: queue.put (one more unfinished task) and
\* return True.
SubmitPut(c) ==
    /\ cl[c].pc = "put"
    /\ queue' = Append(queue, cl[c].job_id)
    /\ cl' = [cl EXCEPT ![c] = AfterSubmit(cl[c], TRUE)]
    /\ UNCHANGED << cfg_workers, now, store, inflight, started, workers, wk, nfacc,
                 hist, lk >>
    /\ unfinished_tasks' = unfinished_tasks + 1

\* ui.py lines 364 and 439: store.update_job(job_id, status="queued",
\* progress=0, message="Manual dispatch").
ManualValues == UpdateValues("queued", 0, "Manual dispatch", None, NoError)

ManualReset(c) ==
    /\ cl[c].pc = "upd"
    /\ \E ts \in ClockReads(cl[c].since) :
          store' = ApplyUpdate(store, cl[c].job_id, ManualValues, ts)
    /\ cl' = [cl EXCEPT ![c] = IdleCaller]
    /\ UNCHANGED << cfg_workers, now, queue, inflight, started, workers, wk, nfacc,
                 unfinished_tasks, lk >>
    /\ hist' = Record("row", FALSE)

\* JobStore.update_inputs(job_id, inputs) called on the store by thread c,
\* lines 144-151: one critical section, after which the call returns.
UpdateInputsCall(c, job_id, inputs) ==
    /\ cl[c].pc = "idle"
    /\ store' = ApplyInputs(store, job_id, inputs)
    /\ UNCHANGED << cfg_workers, now, queue, inflight, started, workers, wk, cl,
                    nfacc, unfinished_tasks, hist, lk >>

\* JobStore.list_jobs(limit, offset, status, operation) called by thread c;
\* the call returns one of the results the query may give.
ListJobsCall(c, limit, offset, status, operation) ==
    /\ cl[c].pc = "idle"
    /\ \E rows \in ListJobs(store, limit, offset, status, operation) :
          cl' = [cl EXCEPT ![c] =
                    [IdleCaller EXCEPT !.pc = "listed", !.flow = "list",
                                       !.args = << limit, offset, status, operation >>,
                                       !.rows = rows]]
    /\ UNCHANGED << cfg_workers, now, store, queue, inflight, started, workers, wk,
                    nfacc, unfinished_tasks, hist, lk >>

\* the caller goes on
ListJobsDone(c) ==
    /\ cl[c].pc = "listed"
    /\ cl' = [cl EXCEPT ![c] = IdleCaller]
    /\ UNCHANGED << cfg_workers, now, store, queue, inflight, started, workers, wk,
                    nfacc, unfinished_tasks, hist, lk >>

\* update_job, lines 137-142: execute and commit; the rowcount is not looked
\* at and nothing is raised, whether or not a row matched.
UpdateOutcome(st, job_id) == None

\* JobStore.update_job called by thread c, lines 107-135: the values dict is
\* built and now_iso() is read (line 118) before the store lock is asked for.
UpdateJob(c, job_id, values) ==
    /\ cl[c].pc = "idle"
    /\ cl' = [cl EXCEPT ![c] =
                [IdleCaller EXCEPT !.pc = "update", !.flow = "update",
                                   !.job_id = job_id, !.values = values,
                                   !.since = now]]
    /\ UNCHANGED << cfg_workers, now, store, queue, inflight, started, workers, wk,
                    nfacc, unfinished_tasks, hist, lk >>

\* lines 137-142: the UPDATE under the store lock, and the return
UpdateJobCommit(c) ==
    /\ cl[c].pc = "update"
    /\ \E ts \in ClockReads(cl[c].since) :
          store' = ApplyUpdate(store, cl[c].job_id, cl[c].values, ts)
    /\ cl' = [cl EXCEPT ![c].pc = "updated",
                        ![c].exc = UpdateOutcome(store, cl[c].job_id)]
    /\ UNCHANGED << cfg_workers, now, queue, inflight, started, workers, wk,
                    nfacc, unfinished_tasks, hist, lk >>

\* the caller goes on
UpdateJobDone(c) ==
    /\ cl[c].pc = "updated"
    /\ cl' = [cl EXCEPT ![c] = IdleCaller]
    /\ UNCHANGED << cfg_workers, now, store, queue, inflight, started, workers, wk,
                    nfacc, unfinished_tasks, hist, lk >>

\* JobRunner.dispatch_pending, line 251, and requeue_stale_running's line 158:
\* start(), then the cutoff is computed, before the store lock is taken.
DispatchPending(c, limit, stale_seconds) ==
    /\ cl[c].pc = "idle"
    /\ workers' = StartWorkers
    /\ wk' = StartWk
    /\ started' = TRUE
    /\ cl' = [cl EXCEPT ![c] =
                [IdleCaller EXCEPT !.pc = "sweep", !.flow = "dispatch",
                                   !.limit = limit,
                                   !.cutoff = CutoffOf(stale_seconds)]]
    /\ UNCHANGED << cfg_workers, now, store, queue, inflight, nfacc,
                 unfinished_tasks, hist, lk >>

\* requeue_stale_running, lines 159-173, one critical section; it returns the
\* number of rows selected.
RequeueStaleRunning(c) ==
    /\ cl[c].pc = "sweep"
    /\ store' = RequeueStale(store, cl[c].cutoff)
    /\ cl' = [cl EXCEPT ![c].pc = "list",
                        ![c].requeued = Cardinality(StaleIds(store, cl[c].cutoff))]
    /\ UNCHANGED << cfg_workers, now, queue, inflight, started, workers, wk, nfacc,
                 unfinished_tasks, lk >>
    /\ hist' = IF StaleIds(store, cl[c].cutoff) = {} THEN hist ELSE Record("row", FALSE)

\* dispatch_pending, line 255: list_jobs(status="queued", limit, offset=0);
\* the loop then submits rec.job_id of each row, not forced.
DispatchList(c) ==
    /\ cl[c].pc = "list"
    /\ \E rows \in ListJobs(store, cl[c].limit, 0, "queued", None) :
          cl' = [cl EXCEPT ![c] =
                    LET ids == [ i \in 1..Len(rows) |-> rows[i].job_id ]
                    IN  IF ids = << >>
                        THEN [IdleCaller EXCEPT !.pc = "ret", !.flow = "dispatch",
                                                !.requeued = cl[c].requeued]
                        ELSE [@ EXCEPT !.pc = "gate", !.force = FALSE,
                                       !.job_id = Head(ids), !.pending = Tail(ids)]]
    /\ UNCHANGED << cfg_workers, now, store, queue, inflight, started, workers, wk, nfacc,
                 unfinished_tasks, hist, lk >>

\* dispatch_pending, line 259: the return of {"requeued": cl[c].requeued,
\* "dispatched": cl[c].dispatched}.
Return(c) ==
    /\ cl[c].pc = "ret"
    /\ cl' = [cl EXCEPT ![c] = IdleCaller]
    /\ UNCHANGED << cfg_workers, now, store, queue, inflight, started, workers, wk, nfacc,
                 unfinished_tasks, lk >>
    /\ hist' = Record("row", TRUE)

\* ------------------------------------------------------------- worker loop

\* the progress an operation routine reports after run_operation's own
\* tick(3, ...)
LaterTicks == {95}

\* run_operation's return value: the artifact written under the job's
\* artifacts directory (_job_dirs)
OutPath(job_id) == << "artifacts", job_id >>

\* line 342: f"{str(e)}\n\n{tb}"
ErrorText(msg) == << msg, "\n\n", "Traceback" >>

Contains(text, msg) == \E i \in 1..Len(text) : text[i] = msg

\* mutant of Executable: no status re-check, any stored record is executed
ExecutableWhateverStatus(rec) == rec # NoJob

\* mutant of Executable: the re-check lets a running record through
ExecutableNotTerminal(rec) == rec # NoJob /\ rec.status \notin {"succeeded", "failed"}

\* lines 298-305: which records a worker goes on to execute
Executable(rec) == rec # NoJob /\ rec.status = "queued"

\* mutant of OnException: the handler records the traceback without str(e)
OnExceptionNoMessage(s, msg) ==
    [s EXCEPT !.pc = "fail", !.exc = msg, !.since = now,
              !.values = UpdateValues("failed", 100, "Failed", None,
                                      << "\n\n", "Traceback" >>)]

\* mutant of OnException: no except clause, the exception ends the thread
OnExceptionEscapes(s, msg) == [s EXCEPT !.pc = "dead", !.exc = msg]

\* lines 335-343: the except clause of the loop body: the exception becomes
\* the update to failed, and the loop goes on (to finally).
OnException(s, msg) ==
    [s EXCEPT !.pc = "fail", !.exc = msg, !.since = now,
              !.values = UpdateValues("failed", 100, "Failed", None, ErrorText(msg))]

\* mutant of SucceededValues: the returned path is not recorded
SucceededValuesNoPath(out_path) ==
    UpdateValues("succeeded", 100, "Succeeded", None, NoError)

\* lines 326-333: the update after run_operation returned out_path:
\* output_path=str(out_path) if out_path else None, error=None.
SucceededValues(out_path) ==
    UpdateValues("succeeded", 100, "Succeeded", out_path, NoError)

\* lines 315-316: progress_cb(p, msg) calls update_job(progress=p, message=msg)
OnProgress(s, p, msg) ==
    [s EXCEPT !.pc = "cb", !.last = p, !.since = now,
              !.values = UpdateValues(None, p, msg, None, NoError)]

\* ops.run_operation, lines 58-96, entered by a worker in state s: an
\* unregistered operation raises ValueError; a registered one reports
\* tick(3, ...) and enters its routine.
RunOperation(s) ==
    IF s.rec.operation \in OP_REGISTRY
    THEN OnProgress(s, 3, "Reading")
    ELSE OnException(s, "Unknown operation")

\* An operation routine after a progress report, the worker in state s:
\* op_join_tables (lines 152-159) raises ValueError without "key" in params.
\* Otherwise the routine reports more progress (rising), returns its output
\* path, or, if faults, raises (an unreadable input, ...). The set of the
\* worker's possible next states.
OpRoutine(s, faults) ==
    IF s.rec.operation = OP_JOIN /\ "key" \notin s.rec.params
    THEN { OnException(s, "Missing join key") }
    ELSE { OnProgress(s, p, "Working") : p \in { q \in LaterTicks : q > s.last } }
         \cup { [s EXCEPT !.pc = "done", !.since = now,
                          !.values = SucceededValues(OutPath(s.job_id))] }
         \cup (IF faults THEN { OnException(s, "Runtime error") } ELSE {})

\* line 294: queue.get. Idle workers are interchangeable: the lowest-numbered
\* one takes the item.
WorkerGet(w) ==
    /\ wk[w].pc = "idle"
    /\ \A v \in Workers : wk[v].pc = "idle" => w <= v
    /\ queue # << >>
    /\ queue' = Tail(queue)
    /\ wk' = [wk EXCEPT ![w].pc = "got", ![w].job_id = Head(queue),
                        ![w].nq = ~Executable(store[Head(queue)])]
    /\ UNCHANGED << cfg_workers, now, store, inflight, started, workers, cl, nfacc,
                 unfinished_tasks, hist, lk >>

\* mutant of WorkerCheck: the two "continue" leave the turn without passing
\* through the finally clause
WorkerCheckNoFinally(w) ==
    /\ wk[w].pc = "got"
    /\ LET rec == store[wk[w].job_id]
       IN  wk' = [wk EXCEPT ![w] =
                    IF Executable(rec)
                    THEN [@ EXCEPT !.pc = "claim", !.rec = RecOf(rec), !.since = now,
                                   !.values = UpdateValues("running", 1, "Running",
                                                           None, NoError)]
                    ELSE [IdleWorker EXCEPT !.pc = "idle"]]
    /\ UNCHANGED << cfg_workers, now, store, queue, inflight, started, workers, cl, nfacc,
                    unfinished_tasks, hist, lk >>

\* lines 299-307: get_job and the status re-check; a record that passes is
\* claimed by update_job(status="running", ...) (line 309), whose call follows.
WorkerCheck(w) ==
    /\ wk[w].pc = "got"
    /\ LET rec == store[wk[w].job_id]
       IN  wk' = [wk EXCEPT ![w] =
                    IF Executable(rec)
                    THEN [@ EXCEPT !.pc = "claim", !.rec = RecOf(rec), !.since = now,
                                   !.values = UpdateValues("running", 1, "Running",
                                                           None, NoError)]
                    ELSE [@ EXCEPT !.pc = "finally"]]
    /\ UNCHANGED << cfg_workers, now, store, queue, inflight, started, workers, cl, nfacc,
                 unfinished_tasks, hist, lk >>

\* line 309: the UPDATE to running under the store lock; lines 311-324: the
\* loop then enters run_operation.
WorkerMarkRunning(w) ==
    /\ wk[w].pc = "claim"
    /\ \E ts \in ClockReads(wk[w].since) :
          store' = ApplyUpdate(store, wk[w].job_id, wk[w].values, ts)
    /\ wk' = [wk EXCEPT ![w] = RunOperation(@)]
    /\ UNCHANGED << cfg_workers, now, queue, inflight, started, workers, cl, nfacc,
                 unfinished_tasks, hist, lk >>

\* progress_cb's UPDATE under the store lock; the operation routine goes on.
WorkerProgress(w, faults) ==
    /\ wk[w].pc = "cb"
    /\ \E ts \in ClockReads(wk[w].since) :
          store' = ApplyUpdate(store, wk[w].job_id, wk[w].values, ts)
    /\ \E s \in OpRoutine(wk[w], faults) : wk' = [wk EXCEPT ![w] = s]
    /\ UNCHANGED << cfg_workers, now, queue, inflight, started, workers, cl, nfacc,
                 unfinished_tasks, hist, lk >>

\* lines 326-333: the UPDATE to succeeded, under the store lock
WorkerSucceeded(w) ==
    /\ wk[w].pc = "done"
    /\ \E ts \in ClockReads(wk[w].since) :
          store' = ApplyUpdate(store, wk[w].job_id, wk[w].values, ts)
    /\ wk' = [wk EXCEPT ![w].pc = "finally", ![w].since = 0, ![w].nterm = @ + 1]
    /\ nfacc' = [nfacc EXCEPT ![wk[w].job_id] = 0]
    /\ UNCHANGED << cfg_workers, now, queue, inflight, started, workers, cl,
                 unfinished_tasks, hist, lk >>

\* lines 337-343: the UPDATE to failed, under the store lock
WorkerFailed(w) ==
    /\ wk[w].pc = "fail"
    /\ \E ts \in ClockReads(wk[w].since) :
          store' = ApplyUpdate(store, wk[w].job_id, wk[w].values, ts)
    /\ wk' = [wk EXCEPT ![w].pc = "finally", ![w].since = 0, ![w].nterm = @ + 1]
    /\ nfacc' = [nfacc EXCEPT ![wk[w].job_id] = 0]
    /\ UNCHANGED << cfg_workers, now, queue, inflight, started, workers, cl,
                 unfinished_tasks, hist, lk >>

\* mutant of WorkerFinally: the finally clause calls task_done only, and the
\* identifier stays in _inflight
WorkerFinallyWithoutDone(w) ==
    /\ wk[w].pc = "finally"
    /\ wk' = [wk EXCEPT ![w] = [IdleWorker EXCEPT !.pc = "idle"]]
    /\ UNCHANGED << cfg_workers, now, store, queue, inflight, started, workers, cl,
                    nfacc, hist, lk >>
    /\ unfinished_tasks' = unfinished_tasks - 1

\* lines 344-346 and 287-289: _done (discard from _inflight, under
\* _inflight_lock) and task_done (one unfinished task less); the loop takes
\* its next turn.
WorkerFinally(w) ==
    /\ wk[w].pc = "finally"
    /\ inflight' = inflight \ {wk[w].job_id}
    /\ wk' = [wk EXCEPT ![w] = [IdleWorker EXCEPT !.pc = "idle"]]
    /\ UNCHANGED << cfg_workers, now, store, queue, started, workers, cl, nfacc,
                 hist, lk >>
    /\ unfinished_tasks' = unfinished_tasks - 1

\* An UPDATE of update_job that fails (lines 137-142: sqlite3 raises, the
\* database is locked or cannot be opened): nothing is written and the
\* exception goes to the caller of update_job.
StorageError == "database is locked"

\* line 309 raises: the call is inside the try block, the except clause
\* takes the exception and goes on to record failed.
WorkerMarkRunningFails(w) ==
    /\ wk[w].pc = "claim"
    /\ wk' = [wk EXCEPT ![w] = OnException(@, StorageError)]
    /\ UNCHANGED << cfg_workers, now, store, queue, inflight, started, workers, cl,
                    nfacc, unfinished_tasks, hist, lk >>

\* progress_cb's update_job raises (lines 315-316): ops.py does not catch
\* it, run_operation ends with the exception, the except clause takes it.
WorkerProgressFails(w) ==
    /\ wk[w].pc = "cb"
    /\ wk' = [wk EXCEPT ![w] = OnException(@, StorageError)]
    /\ UNCHANGED << cfg_workers, now, store, queue, inflight, started, workers, cl,
                    nfacc, unfinished_tasks, hist, lk >>

\* the update to succeeded raises (lines 326-333): the except clause takes it.
WorkerSucceededFails(w) ==
    /\ wk[w].pc = "done"
    /\ wk' = [wk EXCEPT ![w] = OnException(@, StorageError)]
    /\ UNCHANGED << cfg_workers, now, store, queue, inflight, started, workers, cl,
                    nfacc, unfinished_tasks, hist, lk >>

\* the update to failed raises (lines 337-343): the call is in the except
\* clause itself, so the exception is on its way out of the loop body; the
\* finally clause runs first.
WorkerFailedFails(w) ==
    /\ wk[w].pc = "fail"
    /\ wk' = [wk EXCEPT ![w].pc = "raise", ![w].exc = StorageError]
    /\ UNCHANGED << cfg_workers, now, store, queue, inflight, started, workers, cl,
                    nfacc, unfinished_tasks, hist, lk >>

\* lines 344-346 with an exception pending: _done and task_done, then the
\* exception leaves `while True` and _worker_loop: the thread ends.
WorkerFinallyRaising(w) ==
    /\ wk[w].pc = "raise"
    /\ inflight' = inflight \ {wk[w].job_id}
    /\ wk' = [wk EXCEPT ![w].pc = "dead"]
    /\ UNCHANGED << cfg_workers, now, store, queue, started, workers, cl, nfacc,
                    hist, lk >>
    /\ unfinished_tasks' = unfinished_tasks - 1

\* ------------------------------------------------------------ specifications

WorkerStep(w, faults) ==
    \/ WorkerGet(w)
    \/ WorkerCheck(w)
    \/ WorkerMarkRunning(w)
    \/ WorkerProgress(w, faults)
    \/ WorkerSucceeded(w)
    \/ WorkerFailed(w)
    \/ WorkerFinally(w)

\* dispatch_pending's default limit (line 247); ui.py calls it without
\* arguments
DefaultLimit == 200

\* dispatch_pending's stale_seconds (its default, 15 * 60, is what ui.py
\* passes), on the scale of the model's clock
StaleChoices == {1}

CanCreate(Js) == FreeIds # {} /\ new_job_id \in Js

\* ui.py 339-351: caller c creates a job of a kind in Ks, with an identifier
\* in Js, attaches its inputs and (run) submits it
NewJobFlow(c, Js, Ks) ==
    \/ \E kind \in Ks, run \in BOOLEAN : CanCreate(Js) /\ NewJob(c, kind, run)
    \/ UpdateInputs(c)

\* ui.py 361-365, 437-440: caller c re-dispatches a job of Js by hand
ManualFlow(c, Js) ==
    \/ \E j \in Js : ManualDispatch(c, j)
    \/ ManualReset(c)

\* ui.py 263-265, 273-274: caller c runs dispatch_pending
DispatchFlow(c) ==
    \/ \E s \in StaleChoices : DispatchPending(c, DefaultLimit, s)
    \/ RequeueStaleRunning(c)
    \/ DispatchList(c)
    \/ Return(c)

\* the steps of JobRunner.submit, in whichever flow it was called
SubmitSteps(c) ==
    \/ SubmitGate(c)
    \/ SubmitPut(c)

ConcatJob == [operation |-> OP_CONCAT, params |-> {}]

\* Two workers, one caller thread, one job of any kind, every flow; the clock
\* stands still.
Next ==
    \/ \E w \in Workers : WorkerStep(w, TRUE)
    \/ \E c \in {"c1"} :
         \/ NewJobFlow(c, {1}, JobKinds)
         \/ ManualFlow(c, {1})
         \/ DispatchFlow(c)
         \/ SubmitSteps(c)

Spec == Init /\ [][Next]_vars

\* One worker, one caller thread, two jobs and the clock; jobs are created and
\* dispatched, not re-dispatched by hand.
InitClock == Init /\ cfg_workers = 1

NextClock ==
    \/ Tick
    \/ \E w \in {1} : WorkerStep(w, TRUE)
    \/ \E c \in {"c1"} :
         \/ NewJobFlow(c, JobIds, {ConcatJob})
         \/ DispatchFlow(c)
         \/ SubmitSteps(c)

SpecClock == InitClock /\ [][NextClock]_vars

\* A worker loop whose executor does not fail.
WorkerStepOk(w) ==
    \/ WorkerGet(w)
    \/ WorkerCheck(w)
    \/ WorkerMarkRunning(w)
    \/ WorkerProgress(w, FALSE)
    \/ WorkerSucceeded(w)
    \/ WorkerFinally(w)

\* One or two workers, fairly scheduled, one caller thread, one concat job
\* whose executor returns its output path, and the clock; the caller creates
\* the job, submits it or leaves it to dispatch_pending, and runs
\* dispatch_pending at will.
NextLive ==
    \/ Tick
    \/ \E w \in Workers : WorkerStepOk(w)
    \/ \E c \in {"c1"} :
         \/ NewJobFlow(c, {1}, {ConcatJob})
         \/ DispatchFlow(c)
         \/ SubmitSteps(c)

SpecLive ==
    /\ Init
    /\ [][NextLive]_vars
    /\ \A w \in Workers : WF_vars(WorkerStepOk(w))

\* dispatch_pending called with a limit of Limits
DispatchFlowOf(c, Limits) ==
    \/ \E limit \in Limits, s \in StaleChoices : DispatchPending(c, limit, s)
    \/ RequeueStaleRunning(c)
    \/ DispatchList(c)
    \/ Return(c)

\* the limits passed to dispatch_pending: one that the queued rows can
\* exceed, and the default
LimitChoices == {1, DefaultLimit}

\* One worker, one caller thread that creates concat jobs and runs
\* dispatch_pending with either limit, and the clock; the history of the
\* dispatch_pending calls is kept.
InitDispatch ==
    /\ InitRunner
    /\ cfg_workers = 1
    /\ now = 0
    /\ store = [ j \in JobIds |-> NoJob ]
    /\ hist = [NoHistory EXCEPT !.on = TRUE]

NextDispatch ==
    \/ Tick
    \/ \E w \in {1} : WorkerStep(w, TRUE)
    \/ \E c \in {"c1"} :
         \/ NewJobFlow(c, JobIds, {ConcatJob})
         \/ DispatchFlowOf(c, LimitChoices)
         \/ SubmitSteps(c)

SpecDispatch == InitDispatch /\ [][NextDispatch]_vars

\* the periodic reconciler: a thread that runs dispatch_pending with a limit
\* of Limits, over and over
Reconciler(c, Limits) == DispatchFlowOf(c, Limits) \/ SubmitSteps(c)

\* A new process on a database that holds two queued concat jobs, created
\* "queue only" in different seconds by an earlier process: job 2 is the
\* newer one.
InitStored ==
    /\ InitRunner
    /\ cfg_workers = 1
    /\ now = TicksPerSec
    /\ store = [ j \in JobIds |->
                   JobRecord(j, j - 1, OP_CONCAT, {}, "uploaded") ]
    /\ hist = NoHistory

\* One worker whose executor does not fail, fairly scheduled; the reconciler
\* c1 with limit 1, fairly scheduled; a user c2 who re-dispatches the newer
\* job by hand when they choose to, and whose calls, once made, run to their
\* end.
NextStarve ==
    \/ \E w \in {1} : WorkerStepOk(w)
    \/ Reconciler("c1", {1})
    \/ \E c \in {"c2"} :
         \/ ManualFlow(c, {2})
         \/ SubmitSteps(c)

SpecStarve ==
    /\ InitStored
    /\ [][NextStarve]_vars
    /\ WF_vars(WorkerStepOk(1))
    /\ SF_vars(Reconciler("c1", {1}))
    /\ WF_vars(SubmitSteps("c2") \/ ManualReset("c2"))

\* A new process on a database that holds one queued concat job; the
\* configured worker count is one or two.
InitStart ==
    /\ InitRunner
    /\ now = TicksPerSec
    /\ store = [ j \in JobIds |->
                   IF j = 1 THEN JobRecord(j, 0, OP_CONCAT, {}, "uploaded")
                   ELSE NoJob ]
    /\ hist = NoHistory

\* Two caller threads on one runner while the workers run: c1 re-dispatches
\* the job by hand and so calls start() through submit, c2 runs
\* dispatch_pending and so calls start() directly and through submit.
NextStart ==
    \/ \E w \in Workers : WorkerStepOk(w)
    \/ \E c \in {"c1"} :
         \/ ManualFlow(c, {1})
         \/ SubmitSteps(c)
    \/ \E c \in {"c2"} :
         \/ DispatchFlow(c)
         \/ SubmitSteps(c)

SpecStart == InitStart /\ [][NextStart]_vars

\* arguments of update_job: each parameter left out (None) or given; a
\* progress of 0 and an empty message are given values
UpdateChoices ==
    { UpdateValues(status, progress, message, output_path, error) :
        status \in {None, "running", "failed"},
        progress \in {NoProgress, 0, 50},
        message \in {None, ""},
        output_path \in {None, "out.xlsx"},
        error \in {NoError, << "boom" >>} }

UpdateFlow(c, Js) ==
    \/ \E j \in Js, values \in UpdateChoices : UpdateJob(c, j, values)
    \/ UpdateJobCommit(c)
    \/ UpdateJobDone(c)

\* The store alone, used by two threads while the clock goes on: c1 calls
\* update_job with any arguments on either identifier, whether or not a row
\* exists for it; c2 creates job 1 ("queue only") and saves its inputs.
NextStore ==
    \/ Tick
    \/ UpdateFlow("c1", JobIds)
    \/ \E kind \in {ConcatJob} : CanCreate({1}) /\ NewJob("c2", kind, FALSE)
    \/ UpdateInputs("c2")

SpecStore == Init /\ [][NextStore]_vars

\* One or two workers whose executor succeeds or fails, and a thread that
\* calls submit, forced or not, with the identifier of the stored job or with
\* an identifier that has no record.
NextRelease ==
    \/ \E w \in Workers : WorkerStep(w, TRUE)
    \/ \E c \in {"c1"} :
         \/ \E j \in JobIds, force \in BOOLEAN : DirectSubmit(c, j, force)
         \/ SubmitSteps(c)

SpecRelease == InitStart /\ [][NextRelease]_vars

\* the record a worker left running when its process died
OrphanRecord(job_id) ==
    [JobRecord(job_id, 0, OP_CONCAT, {}, "uploaded")
        EXCEPT !.status = "running", !.progress = 3, !.message = "Reading"]

\* A new process after a crash: the database holds job 1 as running and job 2
\* as queued (created, never dispatched), the
\* dispatch queue and the in-flight set are empty, no worker is started.
InitCrash ==
    /\ InitRunner
    /\ now = 0
    /\ store = [ j \in JobIds |->
                 IF j = 1 THEN OrphanRecord(j)
                 ELSE JobRecord(j, 0, OP_CONCAT, {}, "uploaded") ]
    /\ hist = NoHistory

\* One or two workers, fairly scheduled, the reconciler c1 with the default
\* limit, fairly scheduled, and the clock, which goes on.
NextCrash ==
    \/ Tick
    \/ \E w \in Workers : WorkerStep(w, TRUE)
    \/ Reconciler("c1", {DefaultLimit})

SpecCrash ==
    /\ InitCrash
    /\ [][NextCrash]_vars
    /\ WF_vars(Tick)
    /\ \A w \in Workers : WF_vars(WorkerStep(w, TRUE))
    /\ SF_vars(Reconciler("c1", {DefaultLimit}))

\* One or two workers, the clock, a user c2 who creates one concat job
\* ("submit and run" or "queue only"), and a thread c1 that runs
\* dispatch_pending; nobody re-dispatches by hand.
NextAuto ==
    \/ Tick
    \/ \E w \in Workers : WorkerStep(w, TRUE)
    \/ Reconciler("c1", {DefaultLimit})
    \/ \E c \in {"c2"} :
         \/ NewJobFlow(c, {1}, {ConcatJob})
         \/ SubmitSteps(c)

SpecAuto == Init /\ [][NextAuto]_vars

\* The lock operations of two UI threads and two worker loops, each making
\* one call after another, in every interleaving.
NextLocks ==
    \E t \in LockThreads :
        \/ LockBegin(t)
        \/ LockAcquire(t)
        \/ LockRelease(t)

InitLocks == Init /\ cfg_workers = 2

SpecLocks == InitLocks /\ [][NextLocks]_vars

\* a row as the worker loop leaves it in each status
StoredAs(job_id, ts, operation, status) ==
    LET rec == JobRecord(job_id, ts, operation, {}, "uploaded")
    IN  IF status = "running"
        THEN [rec EXCEPT !.status = "running", !.progress = 1, !.message = "Running"]
        ELSE IF status = "succeeded"
        THEN [rec EXCEPT !.status = "succeeded", !.progress = 100,
                         !.message = "Succeeded", !.output_path = OutPath(job_id)]
        ELSE IF status = "failed"
        THEN [rec EXCEPT !.status = "failed", !.progress = 100, !.message = "Failed",
                         !.error = ErrorText("Runtime error")]
        ELSE rec

Statuses == {"queued", "running", "succeeded", "failed"}

\* A database left by earlier processes: no, one or two rows, created in the
\* same second or not, of either operation and in any status.
InitList ==
    /\ InitRunner
    /\ now = MaxTime
    /\ hist = NoHistory
    /\ \E rows \in [ JobIds ->
                       {NoJob} \cup [ ts : 0..(MaxTime \div TicksPerSec),
                                      op : OP_REGISTRY, st : Statuses ] ] :
          store = [ j \in JobIds |->
                      IF rows[j] = NoJob THEN NoJob
                      ELSE StoredAs(j, rows[j].ts, rows[j].op, rows[j].st) ]

\* A thread that calls list_jobs with any limit, offset and filters.
NextList ==
    \E c \in {"c1"} :
        \/ \E limit \in 0..MaxLimit, offset \in 0..MaxLimit,
              status \in {None} \cup Statuses, operation \in {None} \cup OP_REGISTRY :
                ListJobsCall(c, limit, offset, status, operation)
        \/ ListJobsDone(c)

SpecList == InitList /\ [][NextList]_vars

\* The flows of SpecClock, and a second thread that calls update_inputs on
\* the store with another list of inputs, on either identifier, at any time.
NextInputs ==
    \/ NextClock
    \/ \E j \in JobIds : UpdateInputsCall("c2", j, "replaced")

SpecInputs == InitClock /\ [][NextInputs]_vars

\* A database that holds one queued concat job, created "queue only".
InitQueued ==
    /\ InitRunner
    /\ now = 0
    /\ store = [ j \in JobIds |->
                   IF j = 1 THEN JobRecord(j, 0, OP_CONCAT, {}, "uploaded")
                   ELSE NoJob ]
    /\ hist = NoHistory

\* One or two workers, the clock, and two threads that run dispatch_pending
\* at will: every submit is a non-forced one.
NextNonForced ==
    \/ Tick
    \/ \E w \in Workers : WorkerStep(w, TRUE)
    \/ \E c \in Callers : Reconciler(c, {DefaultLimit})

SpecNonForced == InitQueued /\ [][NextNonForced]_vars

\* One or two workers and two threads that call submit on the stored job:
\* not forced while it is queued, then forced, again and again, once it is
\* succeeded or failed; nobody resets the record.
NextForced ==
    \/ \E w \in Workers : WorkerStep(w, TRUE)
    \/ \E c \in Callers :
         \/ StoredStatus(1) = "queued" /\ DirectSubmit(c, 1, FALSE)
         \/ StoredStatus(1) \in {"succeeded", "failed"} /\ DirectSubmit(c, 1, TRUE)
         \/ SubmitSteps(c)

SpecForced == InitQueued /\ [][NextForced]_vars

\* The row of a job that succeeded, was retried by hand and failed, was
\* retried again and was running when its process died: update_job leaves
\* output_path and error as the earlier attempts wrote them.
RetriedOrphan(job_id) ==
    [OrphanRecord(job_id) EXCEPT !.output_path = OutPath(job_id),
                                 !.error = ErrorText("Runtime error")]

\* A new process on a database that holds job 1 as such a row and job 2 as
\* queued.
InitSweep ==
    /\ InitRunner
    /\ cfg_workers = 1
    /\ now = 0
    /\ store = [ j \in JobIds |->
                   IF j = 1 THEN RetriedOrphan(j)
                   ELSE JobRecord(j, 0, OP_CONCAT, {}, "uploaded") ]
    /\ hist = NoHistory

\* One worker, the clock, and two threads that run dispatch_pending at will,
\* on that database.
NextSweep ==
    \/ Tick
    \/ \E w \in {1} : WorkerStep(w, TRUE)
    \/ \E c \in Callers : Reconciler(c, {DefaultLimit})

SpecSweep == InitSweep /\ [][NextSweep]_vars

\* A worker loop whose store writes may fail.
WorkerStepStoreFaults(w) ==
    \/ WorkerStep(w, TRUE)
    \/ WorkerMarkRunningFails(w)
    \/ WorkerProgressFails(w)
    \/ WorkerSucceededFails(w)
    \/ WorkerFailedFails(w)
    \/ WorkerFinallyRaising(w)

\* A new process on a database that holds two queued jobs.
InitFaults ==
    /\ InitRunner
    /\ now = 0
    /\ store = [ j \in JobIds |-> JobRecord(j, 0, OP_CONCAT, {}, "uploaded") ]
    /\ hist = NoHistory

\* One or two workers whose store writes may fail, and a thread that runs
\* dispatch_pending at will; the clock stands still.
NextFaults ==
    \/ \E w \in Workers : WorkerStepStoreFaults(w)
    \/ Reconciler("c1", {DefaultLimit})

SpecFaults == InitFaults /\ [][NextFaults]_vars

\* AppConfig.from_env: workers = max(1, int(SHEETOPS_WORKERS))
from_env(n) == IF 1 >= n THEN 1 ELSE n

\* app._load_config, when excelops.config cannot be used:
\* _FallbackConfig(workers=int(EXCELOPS_WORKERS)), taken as it is
FallbackConfig(n) == n

\* the worker counts the environment may name
EnvWorkers == (0 - 1)..Cardinality(Workers)

\* a new process whose config object came from either loader
InitConfig ==
    /\ cfg_workers \in { from_env(n) : n \in EnvWorkers }
                         \cup { FallbackConfig(n) : n \in EnvWorkers }
    /\ NewRunner
    /\ now = 0
    /\ store = [ j \in JobIds |-> NoJob ]
    /\ hist = NoHistory

\* The flows of NextLive in a process configured by either loader.
SpecConfig == InitConfig /\ [][NextLive]_vars

\* ------------------------------------------------------------------ claims

\* the executor has been invoked in worker w's current turn and its outcome
\* is not yet recorded
Executing(w) == wk[w].pc \in {"cb", "done", "fail"}

\* C1: no two workers are at the same time past the status re-check and
\* executing the same job_id.
NoDoubleExecution ==
    \A w1, w2 \in Workers :
        (w1 # w2 /\ Executing(w1) /\ Executing(w2)) => wk[w1].job_id # wk[w2].job_id

\* C2: of the non-forced Submit calls made for a job that has not completed
\* (its status queued or running, no terminal status written since), at most
\* one is accepted.
DedupGate == \A j \in JobIds : nfacc[j] <= 1

\* C3, as stated: a worker that dequeued a job_id whose stored status was not
\* queued at that moment executes nothing: it only drops the item.
StatusGuardAtDequeue ==
    \A w \in Workers : wk[w].nq => wk[w].pc \in {"got", "finally"}

\* C3, amended: when the worker's re-check (get_job, after the dequeue) finds
\* the stored status not queued, the consumption is a no-op: the worker's next
\* step drops the item, the step after releases it, neither writes the store
\* nor invokes the executor; and a turn of the loop writes output_path or
\* error at most once.
StatusGuard ==
    [][ \A w \in Workers :
          /\ (wk[w].pc = "got" /\ StoredStatus(wk[w].job_id) # "queued"
                /\ wk'[w] # wk[w])
                => (wk'[w].pc = "finally" /\ wk'[w].nterm = 0 /\ store' = store)
          /\ (wk[w].pc = "finally" /\ wk[w].nterm = 0 /\ wk'[w] # wk[w])
                => (wk'[w].pc = "idle" /\ store' = store)
          /\ wk'[w].nterm <= 1 ]_vars

StatusGuardWitness ==
    \E w \in Workers :
        /\ wk[w].pc = "finally"
        /\ wk[w].nterm = 0
        /\ StoredStatus(wk[w].job_id) = "running"

\* C4: in every state, succeeded goes with an output_path and no error,
\* failed with an error and no output_path.
TerminalExclusive ==
    \A j \in JobIds :
        store[j] # NoJob =>
            /\ store[j].status = "succeeded"
                 => (store[j].output_path # None /\ store[j].error = NoError)
            /\ store[j].status = "failed"
                 => (store[j].error # NoError /\ store[j].output_path = None)

\* C5: requeue_stale_running, called with a threshold at time t, resets to
\* queued with progress 0 exactly the records that are running with
\* updated_at before t - threshold, leaves every other record as it was, and
\* returns the number of records it reset.
StaleRecovery ==
    [][ \A c \in Callers :
          /\ (cl[c].pc = "idle" /\ cl'[c].pc = "sweep")
                => \E s \in StaleChoices : cl'[c].cutoff = now - s * TicksPerSec
          /\ (cl[c].pc = "sweep" /\ cl'[c].pc = "list")
                => LET S == { j \in JobIds :
                                /\ store[j] # NoJob
                                /\ store[j].status = "running"
                                /\ store[j].updated_at * TicksPerSec < cl[c].cutoff }
                   IN  /\ \A j \in S : /\ store'[j].status = "queued"
                                        /\ store'[j].progress = 0
                       /\ \A j \in JobIds \ S : store'[j] = store[j]
                       /\ cl'[c].requeued = Cardinality(S) ]_vars

\* a sweep has just reset one stale running record and left another record
StaleRecoveryWitness ==
    \E c \in Callers, j, k \in JobIds :
        /\ cl[c].pc = "list"
        /\ cl[c].requeued = 1
        /\ StoredStatus(j) = "queued"
        /\ store[j].message = "Re-queued (stale running)"
        /\ k # j
        /\ store[k] # NoJob

\* the record of j as a successful execution leaves it
SucceededRecord(j) ==
    /\ StoredStatus(j) = "succeeded"
    /\ store[j].progress = 100
    /\ store[j].output_path # None
    /\ store[j].output_path = OutPath(j)
    /\ store[j].error = NoError

OnQueue(j) == \E i \in 1..Len(queue) : queue[i] = j

\* C6: with fair workers and an executor that returns its output path, a job
\* that was created and submitted (its id put on the dispatch queue)
\* eventually is succeeded with progress 100, the returned output_path and no
\* error, and stays so.
EndToEndSuccess == \A j \in {1} : OnQueue(j) ~> [] SucceededRecord(j)

\* the job has succeeded and the runner is at rest
EndToEndSuccessWitness ==
    /\ SucceededRecord(1)
    /\ queue = << >>
    /\ \A w \in 1..cfg_workers : wk[w].pc = "idle"

\* C7: when the executor raises in a worker, the exception is the one the
\* code raises for that case, and the worker's next step writes status failed,
\* progress 100 and an error text containing the raised message.
ExecutorFailureRecorded ==
    [][ \A w \in Workers :
          LET j == wk[w].job_id
          IN  /\ (wk[w].pc = "claim" /\ wk[w].rec.operation \notin OP_REGISTRY
                    /\ wk'[w] # wk[w])
                    => (wk'[w].pc = "fail" /\ wk'[w].exc = "Unknown operation")
              /\ (wk[w].pc = "cb" /\ wk[w].rec.operation = OP_JOIN
                    /\ "key" \notin wk[w].rec.params /\ wk'[w] # wk[w])
                    => (wk'[w].pc = "fail" /\ wk'[w].exc = "Missing join key")
              /\ (wk[w].pc # "fail" /\ wk'[w].pc = "fail") => wk'[w].exc # None
              /\ (wk[w].pc = "fail" /\ wk'[w] # wk[w])
                    => /\ wk'[w].pc = "finally"
                       /\ store'[j].status = "failed"
                       /\ store'[j].progress = 100
                       /\ Contains(store'[j].error, wk[w].exc) ]_vars

ExecutorFailureWitness ==
    \E j \in JobIds :
        /\ StoredStatus(j) = "failed"
        /\ store[j].progress = 100
        /\ Contains(store[j].error, "Missing join key")

\* C8: every worker loop that was started is alive, whatever the executor did.
WorkersAlive ==
    started => \A w \in 1..cfg_workers : wk[w].pc \notin {"off", "dead"}

\* the only worker has recorded a failure and has gone on to take another item
WorkersAliveWitness ==
    /\ cfg_workers = 1
    /\ StoredStatus(1) = "failed"
    /\ wk[1].pc = "got"

\* C9: queued goes with progress 0, succeeded and failed with progress 100.
ProgressStatus ==
    \A j \in JobIds :
        store[j] # NoJob =>
            /\ store[j].status = "queued" => store[j].progress = 0
            /\ store[j].status \in {"succeeded", "failed"} => store[j].progress = 100

\* C10: the stored updated_at of a job never decreases.
MonotonicUpdatedAt ==
    [][ \A j \in JobIds :
          store[j] # NoJob => store'[j].updated_at >= store[j].updated_at ]_vars

\* C11: a dispatch_pending call that follows another, no job
\* created or reset to queued in between, returns requeued = 0 and
\* dispatched = 0.
RedispatchIdempotent ==
    \A c \in Callers :
        (cl[c].pc = "ret" /\ hist.row)
            => (cl[c].requeued = 0 /\ cl[c].dispatched = 0)

\* C12: with fair workers and dispatch_pending called over and over, a record
\* that is queued and not on the dispatch queue is eventually pushed onto it
\* (or leaves queued).
QueuedStaysDispatchable ==
    \A j \in JobIds :
        (StoredStatus(j) = "queued" /\ ~OnQueue(j))
            ~> (OnQueue(j) \/ StoredStatus(j) # "queued")

Terminal(j) == StoredStatus(j) \in {"succeeded", "failed"}

\* C13: the record left running by a crashed process is eventually reset to
\* queued by the sweep, then put on the dispatch queue, then brought to a
\* terminal status.
CrashRecovery ==
    \A j \in {1} :
        <>( /\ StoredStatus(j) = "queued"
            /\ store[j].message = "Re-queued (stale running)"
            /\ <>(OnQueue(j) /\ <>Terminal(j)) )

\* the orphan has been reset by the sweep and dispatched
CrashRecoveryWitness ==
    /\ StoredStatus(1) = "queued"
    /\ store[1].message = "Re-queued (stale running)"
    /\ OnQueue(1)
    /\ now = MaxTime

\* C14: a record's status only moves queued -> running -> succeeded or
\* failed, and a worker writes succeeded or failed only to a record whose
\* stored status is running.
PerJobOrdering ==
    [][ /\ \A j \in JobIds :
              (store[j] # NoJob /\ store'[j].status # store[j].status)
                  => << store[j].status, store'[j].status >> \in
                        { << "queued", "running" >>,
                          << "running", "succeeded" >>,
                          << "running", "failed" >> }
        /\ \A w \in Workers :
              (wk[w].pc \in {"done", "fail"} /\ wk'[w].pc = "finally")
                  => store[wk[w].job_id].status = "running" ]_vars

\* C15: whatever calls of start (through submit and dispatch_pending) have
\* been made, by one thread or by two, the list of launched worker loops is
\* empty before the first call and holds exactly cfg.workers loops, each
\* once, after it.
StartOnce ==
    /\ ~started => workers = << >>
    /\ started => workers = [ i \in 1..cfg_workers |-> i ]
    /\ \A w \in Workers : wk[w].pc # "off" <=> (started /\ w <= cfg_workers)

\* both threads are past start() at the same time, with two workers configured
StartOnceWitness ==
    /\ cfg_workers = 2
    /\ cl["c1"].pc = "put"
    /\ cl["c2"].pc = "list"
    /\ started

\* C16: an update_job call on an identifier that has no row raises NotFound
\* and leaves the store as it was.
UpdateUnknownFails ==
    [][ \A c \in Callers :
          (cl[c].pc = "update" /\ cl'[c].pc = "updated"
              /\ store[cl[c].job_id] = NoJob)
          => (cl'[c].exc = "NotFound" /\ store' = store) ]_vars

\* C17: an update_job call on a stored job writes each of status, progress,
\* message, output_path and error that was supplied, refreshes updated_at
\* with a time read during the call, and leaves alone the fields not
\* supplied, job_id, created_at, operation, params and inputs, and every
\* other record.
PartialUpdate ==
    [][ \A c \in Callers :
          (cl[c].pc = "update" /\ cl'[c].pc = "updated"
              /\ store[cl[c].job_id] # NoJob)
          => LET j == cl[c].job_id
                 v == cl[c].values
                 old == store[j]
                 new == store'[j]
             IN  /\ new.status = IF v.status = None THEN old.status ELSE v.status
                 /\ new.progress = IF v.progress = NoProgress THEN old.progress
                                   ELSE v.progress
                 /\ new.message = IF v.message = None THEN old.message ELSE v.message
                 /\ new.output_path = IF v.output_path = None THEN old.output_path
                                      ELSE v.output_path
                 /\ new.error = IF v.error = NoError THEN old.error ELSE v.error
                 /\ new.updated_at \in ClockReads(cl[c].since)
                 /\ new.job_id = old.job_id
                 /\ new.created_at = old.created_at
                 /\ new.operation = old.operation
                 /\ new.params = old.params
                 /\ new.inputs = old.inputs
                 /\ \A k \in JobIds \ {j} : store'[k] = store[k] ]_vars

\* a call that supplied progress 0 and the empty message and nothing else has
\* returned, on a record that had been given a status, an output path and an
\* error, after the clock went on
PartialUpdateWitness ==
    /\ cl["c1"].pc = "updated"
    /\ cl["c1"].job_id = 1
    /\ cl["c1"].values = UpdateValues(None, 0, "", None, NoError)
    /\ store[1] # NoJob
    /\ store[1].status = "failed"
    /\ store[1].progress = 0
    /\ store[1].message = ""
    /\ store[1].output_path = "out.xlsx"
    /\ store[1].error = << "boom" >>
    /\ store[1].inputs = "uploaded"
    /\ store[1].updated_at > store[1].created_at

\* C18: a submit called with force=True passes the gate whether or not the
\* identifier is in flight, marks it in flight, appends it to the dispatch
\* queue and returns True.
ForcedSubmit ==
    [][ \A c \in Callers :
          /\ (cl[c].pc = "gate" /\ cl[c].force /\ cl'[c] # cl[c])
                => (cl'[c].pc = "put" /\ cl[c].job_id \in inflight')
          /\ (cl[c].pc = "put" /\ cl[c].force /\ cl'[c] # cl[c])
                => (queue' = Append(queue, cl[c].job_id) /\ cl'[c].ok) ]_vars

\* a forced submit has returned True for a job that was already on the
\* dispatch queue and is being executed
ForcedSubmitWitness ==
    /\ queue = << 1, 1 >>
    /\ StoredStatus(1) = "running"
    /\ cl["c1"].pc = "upd"
    /\ cl["c1"].force
    /\ cl["c1"].ok

\* worker w holds an item it took from the queue and has not acknowledged
Holding(w) == wk[w].pc \in {"got", "claim", "cb", "done", "fail", "finally"}

\* C19: every item put on the queue is either on it, or held by the worker
\* that took it, or acknowledged once: the count of unfinished tasks is the
\* number of items on the queue and in workers' hands. A worker that holds an
\* item leaves its turn only through the finally clause, which discards the
\* job_id from the in-flight set and acknowledges the item, and takes an item
\* only when it holds none.
ReleaseOnEveryPath ==
    /\ [](unfinished_tasks =
             Len(queue) + Cardinality({ w \in Workers : Holding(w) }))
    /\ [][ \A w \in Workers :
              /\ (Holding(w) /\ ~Holding(w)')
                    => /\ wk[w].pc = "finally"
                       /\ wk'[w].pc = "idle"
                       /\ wk[w].job_id \notin inflight'
                       /\ unfinished_tasks' = unfinished_tasks - 1
              /\ (wk'[w].pc = "got" /\ wk[w].pc # "got")
                    => (wk[w].pc = "idle" /\ ~Holding(w)) ]_vars

\* the four outcomes are in the workers' hands or behind them: worker 1 about
\* to release an item whose identifier has no record, after job 1 was brought
\* to failed
ReleaseAbsentWitness ==
    /\ wk[1].pc = "finally"
    /\ wk[1].job_id = 2
    /\ StoredStatus(2) = "absent"
    /\ StoredStatus(1) = "failed"
    /\ 2 \in inflight

\* C20: every job_id that is on the dispatch queue or in the hands of a
\* worker that has not yet released it is in the in-flight set.
InflightCoversWork ==
    \A j \in JobIds :
        (\/ OnQueue(j)
         \/ \E w \in Workers :
               wk[w].job_id = j /\ wk[w].pc \in {"got", "claim", "cb", "done", "fail"})
            => j \in inflight

\* C21: while a record is succeeded or failed, no step other than a caller's
\* reset (update_job(status="queued") of the manual retry) changes its
\* status, and no worker enters the executor for it.
NoAutomaticRetry ==
    [][ \A j \in JobIds :
          (Terminal(j) /\ ~\E c \in Callers : cl[c].pc = "upd" /\ cl'[c].pc = "idle")
            => /\ store'[j].status = store[j].status
               /\ \A w \in Workers :
                     ~(wk[w].job_id = j /\ wk[w].pc = "claim" /\ wk'[w].pc # "claim")
      ]_vars

\* C22: no thread is at the entry of the store lock while it is inside the
\* in-flight lock or the start lock, and whenever some thread is in a call,
\* some thread can take its next step: no state is a deadlock on the locks.
LockDiscipline ==
    /\ \A t \in LockThreads :
          WaitsFor(t, "_lock") => HeldBy(t) \cap {"_inflight_lock", "_start_lock"} = {}
    /\ (\E t \in LockThreads : lk.todo[t] # << >>)
          => \E t \in LockThreads :
                /\ lk.todo[t] # << >>
                /\ \A l \in Locks : WaitsFor(t, l) => lk.owner[l] = None

\* a worker is inside the store lock while another worker waits for it and
\* the two UI threads are inside the start lock and the in-flight lock
LockDisciplineWitness ==
    /\ lk.owner["_lock"] = "w1"
    /\ WaitsFor("w2", "_lock")
    /\ lk.owner["_start_lock"] = "c1"
    /\ lk.owner["_inflight_lock"] = "c2"

\* C23: the sweep's check and reset are one step of the store: the records a
\* sweep resets are those that are running and older than the cutoff in the
\* store as it is when the reset is made; a record that is by then succeeded,
\* failed or queued, or was refreshed past the cutoff, is left as it is.
SweepAtomic ==
    [][ \A c \in Callers :
          (cl[c].pc = "sweep" /\ cl'[c].pc = "list")
            => \A j \in JobIds :
                 IF /\ store[j] # NoJob
                    /\ store[j].status = "running"
                    /\ IsoLess(store[j].updated_at, cl[c].cutoff)
                 THEN /\ store'[j].status = "queued"
                      /\ store'[j].message = "Re-queued (stale running)"
                 ELSE store'[j] = store[j] ]_vars

\* a sweep has reset one record and left alone a record just as old that a
\* worker had brought to a terminal status
SweepAtomicWitness ==
    \E c \in Callers, j, k \in JobIds :
        /\ cl[c].pc = "list"
        /\ cl[c].requeued = 1
        /\ StoredStatus(j) = "queued"
        /\ store[j].message = "Re-queued (stale running)"
        /\ Terminal(k)
        /\ IsoLess(store[k].updated_at, cl[c].cutoff)

CreateJobCorrect ==
    [][ /\ \A c \in Callers :
              (cl[c].pc = "idle" /\ cl'[c].pc = "inputs")
              => LET j == cl'[c].job_id
                     new == store'[j]
                 IN  /\ store[j] = NoJob
                     /\ new # NoJob
                     /\ new.job_id = j
                     /\ new.status = "queued"
                     /\ new.progress = 0
                     /\ new.created_at = now \div TicksPerSec
                     /\ new.updated_at = new.created_at
                     /\ new.output_path = None
                     /\ new.error = NoError
                     /\ new.operation = OP_CONCAT
                     /\ new.params = {}
                     /\ new.inputs = "empty"
                     /\ \A k \in JobIds \ {j} : store'[k] = store[k]
        /\ \A j \in JobIds :
              /\ store[j] # NoJob => (store'[j] # NoJob /\ store'[j].job_id = j)
              /\ (store[j] = NoJob /\ store'[j] # NoJob)
                    => \E c \in Callers : cl[c].pc = "idle" /\ cl'[c].pc = "inputs"
      ]_vars

\* a second job has just been created, in a later second than the first,
\* which a worker has brought to a terminal status
CreateJobWitness ==
    /\ cl["c1"].pc = "inputs"
    /\ cl["c1"].job_id = 2
    /\ Terminal(1)
    /\ StoredStatus(2) = "queued"
    /\ store[2].created_at > store[1].created_at

\* C26: a record's params never change; its inputs change in update_inputs
\* steps only, which change nothing else of the record but updated_at and
\* nothing of the other records, the runner or the workers.
InputsFrame ==
    [][ \A j \in JobIds :
          store[j] # NoJob
          => /\ store'[j].params = store[j].params
             /\ store'[j].inputs # store[j].inputs
                  => /\ store'[j] = [store[j] EXCEPT !.inputs = store'[j].inputs,
                                                    !.updated_at = store'[j].updated_at]
                     /\ store'[j].updated_at = now \div TicksPerSec
                     /\ \A k \in JobIds \ {j} : store'[k] = store[k]
                     /\ UNCHANGED << queue, inflight, wk, started, workers >> ]_vars

\* C26, as stated: in addition, the inputs of a record, once they differ from
\* the list it was created with, never change again.
InputsChangeOnce ==
    [][ \A j \in JobIds :
          store[j] # NoJob
          => /\ store'[j].params = store[j].params
             /\ store[j].inputs # "empty" => store'[j].inputs = store[j].inputs ]_vars

\* the inputs of a running job carry the list of a direct update_inputs call
InputsFrameWitness ==
    /\ StoredStatus(1) = "running"
    /\ store[1].inputs = "replaced"
    /\ store[1].progress > 1
    /\ store[1].updated_at > store[1].created_at

\* C27: when every submit is a non-forced one (dispatch_pending called by any
\* thread at any time, the stale sweep included), no job_id is at the same
\* time twice on the dispatch queue, or in the hands of two workers, or on
\* the queue and in a worker's hands.
NoDuplicateDispatch ==
    \A j \in JobIds :
        Cardinality({ i \in 1..Len(queue) : queue[i] = j })
          + Cardinality({ w \in Workers : Holding(w) /\ wk[w].job_id = j }) <= 1

\* a worker is executing the job, the sweep has put its record back to
\* queued, and a dispatch_pending call that listed it is at the gate
NoDuplicateDispatchWitness ==
    \E w \in Workers, c \in Callers :
        /\ Executing(w)
        /\ wk[w].job_id = 1
        /\ StoredStatus(1) = "queued"
        /\ store[1].message = "Re-queued (stale running)"
        /\ cl[c].pc = "gate"
        /\ cl[c].job_id = 1
        /\ ~cl[c].force

\* the identifiers a dispatch_pending call in state s has listed and not yet
\* submitted
ToSubmit(s) ==
    IF s.pc = "gate" THEN {s.job_id} \cup { s.pending[i] : i \in 1..Len(s.pending) }
    ELSE {}

\* C28: in a dispatch_pending call the sweep comes first and requeued is the
\* number of records it reset; the listing that follows takes the records
\* that are queued then, those just reset included, all of them if they are
\* within the limit and limit of them otherwise; each listed identifier is
\* submitted, not forced, in its turn, accepted exactly when it is not in
\* flight, and dispatched counts the accepted ones.
DispatchCounts ==
    [][ \A c \in Callers :
          LET s == cl[c]
              t == cl'[c]
              Queued == { j \in JobIds : StoredStatus(j) = "queued" }
          IN  s.flow = "dispatch" =>
              /\ (s.pc = "sweep" /\ t # s)
                    => /\ t.pc = "list"
                       /\ t.requeued =
                            Cardinality({ j \in JobIds :
                                StoredStatus(j) = "running"
                                    /\ store'[j].status = "queued" })
                       /\ \A j \in JobIds :
                             (store'[j] # store[j])
                                => (StoredStatus(j) = "running"
                                    /\ store'[j].status = "queued")
              /\ (s.pc = "list" /\ t # s)
                    => /\ t.requeued = s.requeued
                       /\ t.dispatched = 0
                       /\ ToSubmit(t) \subseteq Queued
                       /\ Cardinality(ToSubmit(t)) =
                            (IF Cardinality(Queued) < s.limit
                             THEN Cardinality(Queued) ELSE s.limit)
                       /\ Cardinality(ToSubmit(t)) = Len(t.pending) + 1
                            \/ (ToSubmit(t) = {} /\ t.pc = "ret")
              /\ (s.pc = "gate" /\ t # s)
                    => /\ ~s.force
                       /\ t.requeued = s.requeued
                       /\ IF s.job_id \in inflight
                          THEN /\ t.dispatched = s.dispatched
                               /\ ToSubmit(t) = ToSubmit(s) \ {s.job_id}
                               /\ queue' = queue
                          ELSE /\ t.pc = "put"
                               /\ t.job_id = s.job_id
                               /\ t.pending = s.pending
                               /\ t.dispatched = s.dispatched
              /\ (s.pc = "put" /\ t # s)
                    => /\ queue' = Append(queue, s.job_id)
                       /\ t.requeued = s.requeued
                       /\ t.dispatched = s.dispatched + 1
                       /\ t.pc \in {"gate", "ret"}
                       /\ t.pc = "gate" =>
                            (t.job_id = Head(s.pending) /\ t.pending = Tail(s.pending))
                       /\ t.pc = "ret" => s.pending = << >> ]_vars

\* a call has returned requeued = 1 and dispatched = 2: the record it reset
\* and the other queued record were both submitted and accepted
DispatchCountsWitness ==
    \E c \in Callers :
        /\ cl[c].pc = "ret"
        /\ cl[c].requeued = 1
        /\ cl[c].dispatched = 2

\* C29: once the record is succeeded or failed, forced submits of its job_id
\* change no field of it and start no executor: the workers that dequeue the
\* id drop it; and when the queue is empty and no worker holds an item and no
\* submit is under way, the in-flight set is empty again.
ForcedOnTerminalDropped ==
    /\ [][ \A j \in JobIds :
              Terminal(j)
              => /\ store' = store
                 /\ \A w \in Workers :
                       wk'[w].job_id = j => wk'[w].pc \in {"got", "finally"} ]_vars
    /\ []( ( /\ queue = << >>
             /\ \A w \in Workers : ~Holding(w)
             /\ \A c \in Callers : cl[c].pc = "idle" )
           => inflight = {} )

\* a worker has dropped a forced entry of the failed job and is about to
\* release it, while a second forced entry waits on the queue
ForcedOnTerminalWitness ==
    \E w \in Workers :
        /\ StoredStatus(1) = "failed"
        /\ wk[w].pc = "finally"
        /\ wk[w].nq
        /\ wk[w].job_id = 1
        /\ queue = << 1 >>
        /\ 1 \in inflight

\* C30: while a worker is between its write of running and its terminal
\* write for a job, the stored progress of that job never decreases.
ProgressWithinAttempt ==
    [][ \A w \in Workers :
          Executing(w)
            => store'[wk[w].job_id].progress >= store[wk[w].job_id].progress ]_vars

\* C31. Minimum pool size: whatever worker count the config object carries,
\* zero and negative counts included, a started runner has launched at
\* least one worker loop.
MinimumPool == started => Len(workers) >= 1

\* C32. The frame of the sweep: the step of requeue_stale_running leaves the
\* dispatch queue and the in-flight set as they are, adds and removes no
\* record, and on every record keeps job_id, created_at, operation, params,
\* inputs, output_path and error; a record it does not reset is unchanged.
SweepFrame ==
    [][ \A c \in Callers :
          (cl[c].pc = "sweep" /\ cl'[c].pc = "list")
            => /\ queue' = queue
               /\ inflight' = inflight
               /\ \A j \in JobIds :
                    IF store[j] = NoJob THEN store'[j] = NoJob
                    ELSE /\ store'[j] # NoJob
                         /\ store'[j].job_id = store[j].job_id
                         /\ store'[j].created_at = store[j].created_at
                         /\ store'[j].operation = store[j].operation
                         /\ store'[j].params = store[j].params
                         /\ store'[j].inputs = store[j].inputs
                         /\ store'[j].output_path = store[j].output_path
                         /\ store'[j].error = store[j].error
                         /\ store'[j].status = store[j].status
                              => store'[j] = store[j] ]_vars

\* a sweep has just reset a record that carries the output path and the
\* error of earlier attempts, while another job is on the dispatch queue
\* and in the in-flight set
SweepFrameWitness ==
    \E c \in Callers :
        /\ cl[c].pc = "list"
        /\ cl[c].requeued = 1
        /\ StoredStatus(1) = "queued"
        /\ store[1].message = "Re-queued (stale running)"
        /\ store[1].output_path = OutPath(1)
        /\ store[1].error = ErrorText("Runtime error")
        /\ queue = << 2 >>
        /\ inflight = {2}

\* C33. Inputs are attached before execution: a worker that has invoked the
\* executor read the job's row after update_inputs had replaced the empty
\* input list the job was created with.
InputsAttached ==
    \A w \in Workers : Executing(w) => wk[w].rec.inputs # "empty"

\* C34. Manual dispatch does not clobber a worker's write: the record of a
\* job does not read queued while a worker is executing the job, nor in the
\* rest of that worker's turn once it has written succeeded or failed.
ManualKeepsWorkerWrite ==
    \A w \in Workers :
        (Executing(w) \/ (wk[w].pc = "finally" /\ wk[w].nterm > 0))
            => StoredStatus(wk[w].job_id) # "queued"

\* the dispatch queue is empty, every worker loop is waiting on it (or not
\* started), and no thread is inside submit
Quiescent ==
    /\ queue = << >>
    /\ \A w \in Workers : wk[w].pc \in {"off", "idle"}
    /\ \A c \in Callers : cl[c].pc \notin {"gate", "put"}

\* C35. No leaked in-flight marker: in every quiescent state the in-flight
\* set is empty, so that a non-forced submit of any job would be accepted.
NoLeakedInflight ==
    Quiescent => /\ inflight = {}
                 /\ \A j \in JobIds : ~Rejected(FALSE, j)

\* a quiescent state after work was done: the runner is started, the job is
\* succeeded or failed, every item put on the queue was marked done and no
\* call is in progress
NoLeakedInflightWitness ==
    /\ Quiescent
    /\ started
    /\ Terminal(1)
    /\ unfinished_tasks = 0
    /\ \A c \in Callers : cl[c].pc = "idle"

\* C36. Store failure inside a worker: whichever of the worker's writes
\* fails, marking running, reporting progress, or recording succeeded or
\* failed, the loop goes on: the number of live worker loops of a started
\* runner stays the configured one.
StoreFailureSurvived ==
    started =>
        Cardinality({ w \in Workers : wk[w].pc \notin {"off", "dead"} }) = cfg_workers

====
